---------------------------- MODULE Spec2Model ----------------------------
(***************************************************************************)
(* HDCleaner.py: the catalog built by main_pandas, the duplicate grouper   *)
(* find_issues_pandas, the master/client reconciler                        *)
(* find_issues_master_client, the hasher hash_MD5 and the path classifier  *)
(* file_visibility.                                                        *)
(*                                                                         *)
(* A path is a Python str, modelled as the sequence of its characters.     *)
(* A DataFrame is the sequence of its rows; a row is a record of the       *)
(* columns the algorithms read (filepath, size, type, and hashMD5 once it  *)
(* is computed).  The presentation columns (extension, level_NN) are read  *)
(* by none of the algorithms and are left out of the rows.                 *)
(***************************************************************************)
EXTENDS Integers, Sequences, FiniteSets, TLC

VARIABLES
    pc,                 \* position of the driver: which call has returned
    path,               \* argument of file_visibility
    visibility,         \* what file_visibility returned
    files,              \* what list_files returned: <<filepath, size>> pairs
    dataframe,          \* what main_pandas returned
    dataframe_master,   \* main_pandas of the master root
    dataframe_client,   \* main_pandas of the client root
    min_size,           \* arguments of find_issues_master_client
    only_visible,
    content,            \* the file system as hash_MD5 finds it: path -> digest or None
    hashed,             \* the paths hash_MD5 was called with, in call order
    result              \* what the last find_issues_* call returned

vars == <<pc, path, visibility, files, dataframe, dataframe_master,
          dataframe_client, min_size, only_visible, content, hashed, result>>

-----------------------------------------------------------------------------
(* Bounds of the model *)

MaxParts == 3       \* components of a classified path
MaxSize == 1        \* file sizes are 0..MaxSize
MaxFiles == 4       \* entries of one enumeration of distinct files
MaxDupFiles == 3    \* entries of one enumeration that may repeat a path

-----------------------------------------------------------------------------
(* Values *)

\* get_size returns None where the file is gone; in the DataFrame column the
\* missing size is NaN.  Sizes are >= 0, so -1 stands for it; every comparison
\* with it goes through the operators below, which give pandas' answers.
NaN == -1

\* hash_MD5 returns None where the read fails.
None == "None"

Digests == {"d1", "d2"}

Sizes == 0..MaxSize

\* NaN >= n is False
size_ge(s, n) == s # NaN /\ s >= n

\* str.startswith
startswith(s, prefix) ==
    /\ Len(s) >= Len(prefix)
    /\ SubSeq(s, 1, Len(prefix)) = prefix

Range(s) == {s[i] : i \in 1..Len(s)}

-----------------------------------------------------------------------------
(* Paths *)

SEP == "/"

\* the largest index of a separator in p, 0 where there is none: p.rfind('/') + 1
rfind_sep(p) ==
    LET hits == {i \in 1..Len(p) : p[i] = SEP}
    IN  IF hits = {} THEN 0 ELSE CHOOSE i \in hits : \A j \in hits : j <= i

RECURSIVE rstrip_sep(_)
rstrip_sep(p) ==
    IF p # <<>> /\ p[Len(p)] = SEP THEN rstrip_sep(SubSeq(p, 1, Len(p) - 1)) ELSE p

\* os.path.split: <<head, tail>>
os_path_split(p) ==
    LET i == rfind_sep(p)
        head == SubSeq(p, 1, i)
        tail == SubSeq(p, i + 1, Len(p))
    IN  IF head # <<>> /\ \E k \in 1..Len(head) : head[k] # SEP
        THEN <<rstrip_sep(head), tail>>
        ELSE <<head, tail>>

RECURSIVE split_path(_)
split_path(p) ==
    LET parts == os_path_split(p)
    IN  IF parts[1] = p THEN <<parts[1]>>
        ELSE IF parts[2] = p THEN <<parts[2]>>
        ELSE Append(split_path(parts[1]), parts[2])

DS_STORE == <<".", "D", "S", "_", "S", "t", "o", "r", "e">>
DOT_GIT == <<".", "g", "i", "t">>
DOT == <<".">>

\* the branch of the if/elif chain one component takes, "" where it takes none
part_rule(part) ==
    IF startswith(part, DS_STORE) THEN "DS_Store"
    ELSE IF startswith(part, DOT_GIT) THEN "git"
    ELSE IF startswith(part, DOT) THEN "hidden"
    ELSE ""

\* the components that take a branch
matching(parts) == {i \in 1..Len(parts) : part_rule(parts[i]) # ""}

\* a classifier that scans from the root: the outermost match would decide
file_visibility_root_first(p) ==
    LET parts == split_path(p)
        hits == matching(parts)
    IN  IF hits = {} THEN "visible"
        ELSE part_rule(parts[CHOOSE i \in hits : \A j \in hits : j >= i])

\* for part in parts[::-1]: the first component, from the leaf, that takes a
\* branch decides
file_visibility(p) ==
    LET parts == split_path(p)
        hits == matching(parts)
    IN  IF hits = {} THEN "visible"
        ELSE part_rule(parts[CHOOSE i \in hits : \A j \in hits : j <= i])

\* os.path.join(dirpath, fl) over the components of a path
RECURSIVE join_path(_)
join_path(comps) ==
    IF Len(comps) = 1 THEN comps[1]
    ELSE join_path(SubSeq(comps, 1, Len(comps) - 1)) \o <<SEP>> \o comps[Len(comps)]

\* component names the classifier is tried on
Components ==
    { <<"a">>, <<".", "h">>, DOT_GIT, <<".", "g", "i", "t", "x">>, DS_STORE,
      <<"b", ".", "g", "i", "t">> }

ComponentSeqs == UNION {[1..n -> Components] : n \in 1..MaxParts}

-----------------------------------------------------------------------------
(* The catalog: list_files and main_pandas *)

\* the files of the tree the grouper is run on
PathOrder ==
    << <<"r", "/", "a">>, <<"r", "/", "b">>, <<"r", "/", "c">>, <<"r", "/", "d">>,
       <<"r", "/", ".", "h", "/", "e">> >>

\* the entries of s whose path is in S, in the order of s
RECURSIVE restrict(_, _)
restrict(s, S) ==
    IF s = <<>> THEN <<>>
    ELSE IF s[1] \in S THEN <<s[1]>> \o restrict(Tail(s), S)
    ELSE restrict(Tail(s), S)

\* list_files of a tree: each file once (os.walk), with what get_size returned
Enumerations(order, max) ==
    UNION { { [i \in 1..Len(restrict(order, S)) |->
                 <<restrict(order, S)[i], sz[restrict(order, S)[i]]>>]
              : sz \in [S -> Sizes \cup {NaN}] }
            : S \in {T \in SUBSET Range(order) : Cardinality(T) <= max} }

\* an enumeration that may name a path more than once
DupPaths == {PathOrder[1], PathOrder[2]}

DupEnumerations ==
    UNION {[1..n -> DupPaths \X (Sizes \cup {NaN})] : n \in 0..MaxDupFiles}

\* drop_duplicates with keep='last'
drop_duplicates_keep_last(fls) ==
    LET keep == {i \in 1..Len(fls) : \A j \in (i+1)..Len(fls) : fls[j][1] # fls[i][1]}
        F[i \in 0..Len(fls)] ==
            IF i = 0 THEN <<>>
            ELSE IF i \in keep THEN Append(F[i-1], fls[i]) ELSE F[i-1]
    IN  F[Len(fls)]

\* df.drop_duplicates('filepath'): keep='first' is pandas' default
drop_duplicates(fls) ==
    LET keep == {i \in 1..Len(fls) : \A j \in 1..(i-1) : fls[j][1] # fls[i][1]}
        F[i \in 0..Len(fls)] ==
            IF i = 0 THEN <<>>
            ELSE IF i \in keep THEN Append(F[i-1], fls[i]) ELSE F[i-1]
    IN  F[Len(fls)]

main_pandas(fls) ==
    LET df == drop_duplicates(fls)
    IN  [i \in 1..Len(df) |->
            [filepath |-> df[i][1], size |-> df[i][2],
             type |-> file_visibility(df[i][1])]]

filepaths(df) == {df[i].filepath : i \in 1..Len(df)}

\* the file systems hash_MD5 may find under the paths of S
FileSystems(S) == [S -> Digests \cup {None}]

hash_MD5(fs, p) == fs[p]

-----------------------------------------------------------------------------
(* find_issues_pandas *)

\* no filter on type
all_rows(df) == df

\* df[df['type']=='visible']
visible_rows(df) == SelectSeq(df, LAMBDA r : r.type = "visible")

\* groupby('size').agg({'filepath': 'nunique'}), merged back on 'size': the
\* number of distinct paths of the size.  groupby drops the NaN key, so the
\* left merge leaves NaN in the rows without a size.
nunique_size(df, s) ==
    IF s = NaN THEN NaN
    ELSE Cardinality({df[i].filepath : i \in {j \in 1..Len(df) : df[j].size = s}})

\* a prefilter that also discards buckets of two
flter_more_than_two(df, r) == nunique_size(df, r.size) > 2

\* no prefilter
flter_all(df, r) == TRUE

\* flter = df['nunique_size'] > 1 (NaN > 1 is False)
flter(df, r) == nunique_size(df, r.size) > 1

size_candidates(df) == SelectSeq(df, LAMBDA r : flter(df, r))

\* df['hashMD5'] = df['filepath'].apply(hash_MD5): one call per row, in row order
with_hashMD5(df, fs) ==
    [i \in 1..Len(df) |->
        [filepath |-> df[i].filepath, size |-> df[i].size, type |-> df[i].type,
         hashMD5 |-> hash_MD5(fs, df[i].filepath)]]

hash_calls(df) == [i \in 1..Len(df) |-> df[i].filepath]

\* the order of hexdigest strings
DigestOrder == <<"d1", "d2">>

digest_rank(d) == CHOOSE i \in 1..Len(DigestOrder) : DigestOrder[i] = d

key_lt(a, b) ==
    \/ a[1] < b[1]
    \/ a[1] = b[1] /\ digest_rank(a[2]) < digest_rank(b[2])

RECURSIVE sorted_keys(_)
sorted_keys(K) ==
    IF K = {} THEN <<>>
    ELSE LET k == CHOOSE x \in K : \A y \in K \ {x} : key_lt(x, y)
         IN  <<k>> \o sorted_keys(K \ {k})

\* the keys of groupby(['size', 'hashMD5']): rows with a null key are dropped
group_keys(df) ==
    {<<df[i].size, df[i].hashMD5>> :
        i \in {j \in 1..Len(df) : df[j].size # NaN /\ df[j].hashMD5 # None}}

\* the paths of a size, whatever their digest
members_size_only(df, k) ==
    {df[i].filepath : i \in {j \in 1..Len(df) : df[j].size = k[1]}}

\* agg({'filepath': 'unique'}): the distinct paths of one key
members(df, k) ==
    {df[i].filepath :
        i \in {j \in 1..Len(df) : df[j].size = k[1] /\ df[j].hashMD5 = k[2]}}

\* groupby(['size', 'hashMD5'], as_index=False).agg({'filepath': 'unique'}):
\* one row per key, keys ascending
groupby_size_hash(df) ==
    LET ks == sorted_keys(group_keys(df))
    IN  [i \in 1..Len(ks) |->
            [size |-> ks[i][1], hashMD5 |-> ks[i][2], filepath |-> members(df, ks[i])]]

\* unique[unique['filepath'].apply(len) > 1]
more_than_one(groups) == SelectSeq(groups, LAMBDA g : Cardinality(g.filepath) > 1)

\* x goes before y
size_before(x, y, ascending) == IF ascending THEN x.size < y.size ELSE x.size > y.size

RECURSIVE insert_by_size(_, _, _)
insert_by_size(s, x, ascending) ==
    IF s = <<>> THEN <<x>>
    ELSE IF size_before(x, s[1], ascending) THEN <<x>> \o s
    ELSE <<s[1]>> \o insert_by_size(Tail(s), x, ascending)

RECURSIVE sort_by_size(_, _)
sort_by_size(s, ascending) ==
    IF s = <<>> THEN <<>>
    ELSE insert_by_size(sort_by_size(SubSeq(s, 1, Len(s) - 1), ascending),
                        s[Len(s)], ascending)

\* sort_values(by='size') with the default ascending=True
sort_values_ascending(groups) == sort_by_size(groups, TRUE)

\* sort_values(by='size', ascending=False); rows of one size keep the order the
\* sort kind leaves them in (their groupby order for a frame this small)
sort_values(groups) == sort_by_size(groups, FALSE)

\* drop('hashMD5', axis=1)
drop_hashMD5(groups) ==
    [i \in 1..Len(groups) |-> [size |-> groups[i].size, filepath |-> groups[i].filepath]]

\* the rows hash_MD5 is applied to
find_issues_candidates(df) == size_candidates(visible_rows(df))

find_issues_pandas(df, fs) ==
    drop_hashMD5(sort_values(more_than_one(
        groupby_size_hash(with_hashMD5(find_issues_candidates(df), fs)))))

-----------------------------------------------------------------------------
(* find_issues_master_client *)

RecOrder == <<PathOrder[1], PathOrder[2], PathOrder[5]>>

\* the shared paths among the visible rows only
common_files_visible(master, client) ==
    filepaths(visible_rows(master)) \cap filepaths(visible_rows(client))

\* set(master['filepath'].unique()).intersection(set(client['filepath'].unique()))
common_files(master, client) == filepaths(master) \cap filepaths(client)

\* df[df['size'] >= min_size], then df[df['type'] == 'visible'] if only_visible
filter_rows(df, ms, ov) ==
    SelectSeq(df, LAMBDA r : size_ge(r.size, ms) /\ (ov => r.type = "visible"))

sizes_of(df) == {df[i].size : i \in 1..Len(df)}

\* set(df_master['size'].unique()).intersection(set(df_client['size'].unique()))
common_sizes(master, client) == sizes_of(master) \cap sizes_of(client)

\* df[df['size'].isin(common_sizes)]
isin_sizes(df, S) == SelectSeq(df, LAMBDA r : r.size \in S)

\* the rows of each side hash_MD5 is applied to
master_candidates(master, client, ms, ov) ==
    isin_sizes(filter_rows(master, ms, ov),
               common_sizes(filter_rows(master, ms, ov), filter_rows(client, ms, ov)))

client_candidates(master, client, ms, ov) ==
    isin_sizes(filter_rows(client, ms, ov),
               common_sizes(filter_rows(master, ms, ov), filter_rows(client, ms, ov)))

\* no filter on the hash: a merge pairs null keys with each other
keep_null_hashes(df) == df

\* df[~df['hashMD5'].isnull()]
drop_null_hashes(df) == SelectSeq(df, LAMBDA r : r.hashMD5 # None)

\* on=['size']
join_on_size(c, m) == c.size = m.size

\* on=['size', 'hashMD5']
join_on(c, m) == c.size = m.size /\ c.hashMD5 = m.hashMD5

\* the rows of the inner join one client row gives, in the order of master
RECURSIVE join_row(_, _)
join_row(c, master) ==
    IF master = <<>> THEN <<>>
    ELSE (IF join_on(c, master[1])
          THEN << [filepath |-> c.filepath, size |-> c.size, type |-> c.type,
                   hashMD5 |-> c.hashMD5, filepath_master |-> master[1].filepath] >>
          ELSE <<>>) \o join_row(c, Tail(master))

\* df_client.merge(df_master[['size', 'hashMD5', 'filepath']], how='inner',
\*                 on=['size', 'hashMD5'], suffixes=['', '_master'])
RECURSIVE merge_inner(_, _)
merge_inner(client, master) ==
    IF client = <<>> THEN <<>>
    ELSE join_row(client[1], master) \o merge_inner(Tail(client), master)

\* the value returned where the catalogs share no path
find_issues_master_client(master, client, ms, ov, fs) ==
    merge_inner(
        drop_null_hashes(with_hashMD5(client_candidates(master, client, ms, ov), fs)),
        drop_null_hashes(with_hashMD5(master_candidates(master, client, ms, ov), fs)))

\* the calls of hash_MD5: master's rows first, then client's
master_client_hash_calls(master, client, ms, ov) ==
    hash_calls(master_candidates(master, client, ms, ov))
        \o hash_calls(client_candidates(master, client, ms, ov))

-----------------------------------------------------------------------------
(* The duplicate grouper: list_files, main_pandas, find_issues_pandas *)

InitCommon ==
    /\ path = <<>>
    /\ visibility = ""
    /\ dataframe = <<>>
    /\ dataframe_master = <<>>
    /\ dataframe_client = <<>>
    /\ min_size = 0
    /\ only_visible = TRUE
    /\ content = <<>>
    /\ hashed = <<>>
    /\ result = <<>>

Init ==
    /\ pc = "listed"
    /\ files \in Enumerations(PathOrder, MaxFiles)
    /\ InitCommon

InitCatalog ==
    /\ pc = "listed"
    /\ files \in DupEnumerations
    /\ InitCommon

\* main_pandas(path); max(level_len) raises ValueError on a tree without files
MainPandas ==
    /\ pc = "listed"
    /\ IF files = <<>>
       THEN pc' = "raised" /\ UNCHANGED dataframe
       ELSE pc' = "catalog" /\ dataframe' = main_pandas(files)
    /\ UNCHANGED <<path, visibility, files, dataframe_master, dataframe_client,
                   min_size, only_visible, content, hashed, result>>

\* find_issues_pandas(dataframe), over the file system hash_MD5 finds
FindIssuesPandas ==
    /\ pc = "catalog"
    /\ \E fs \in FileSystems(filepaths(dataframe)) :
          /\ content' = fs
          /\ hashed' = hash_calls(find_issues_candidates(dataframe))
          /\ result' = find_issues_pandas(dataframe, fs)
    /\ pc' = "found"
    /\ UNCHANGED <<path, visibility, files, dataframe, dataframe_master,
                   dataframe_client, min_size, only_visible>>

Next == MainPandas \/ FindIssuesPandas

Spec == Init /\ [][Next]_vars

SpecCatalog == InitCatalog /\ [][Next]_vars

-----------------------------------------------------------------------------
(* The reconciler: main_pandas of two roots, find_issues_master_client *)

InitReconcile ==
    /\ pc = "start"
    /\ files = <<>>
    /\ InitCommon

\* the driver reads the master root first, then the client root
MainPandasMaster ==
    /\ pc = "start"
    /\ dataframe_master = <<>>
    /\ \E fls \in Enumerations(RecOrder, MaxFiles) \ {<<>>} :
          dataframe_master' = main_pandas(fls)
    /\ UNCHANGED <<pc, path, visibility, files, dataframe, dataframe_client,
                   min_size, only_visible, content, hashed, result>>

MainPandasClient ==
    /\ pc = "start"
    /\ dataframe_master # <<>>
    /\ dataframe_client = <<>>
    /\ \E fls \in Enumerations(RecOrder, MaxFiles) \ {<<>>} :
          dataframe_client' = main_pandas(fls)
    /\ UNCHANGED <<pc, path, visibility, files, dataframe, dataframe_master,
                   min_size, only_visible, content, hashed, result>>

\* raise Exception('Master and client must not contain the same files')
raises(master, client) == common_files(master, client) # {}

FindIssuesMasterClient ==
    /\ pc = "start"
    /\ dataframe_master # <<>>
    /\ dataframe_client # <<>>
    /\ \E ms \in Sizes, ov \in BOOLEAN :
          /\ min_size' = ms
          /\ only_visible' = ov
          /\ \/ /\ raises(dataframe_master, dataframe_client)
                /\ pc' = "raised"
                /\ UNCHANGED <<content, hashed, result>>
             \/ /\ ~raises(dataframe_master, dataframe_client)
                /\ pc' = "matched"
                /\ \E fs \in FileSystems(filepaths(dataframe_master)
                                            \cup filepaths(dataframe_client)) :
                      /\ content' = fs
                      /\ hashed' = master_client_hash_calls(
                                       dataframe_master, dataframe_client, ms, ov)
                      /\ result' = find_issues_master_client(
                                       dataframe_master, dataframe_client, ms, ov, fs)
    /\ UNCHANGED <<path, visibility, files, dataframe, dataframe_master,
                   dataframe_client>>

NextReconcile == MainPandasMaster \/ MainPandasClient \/ FindIssuesMasterClient

SpecReconcile == InitReconcile /\ [][NextReconcile]_vars

-----------------------------------------------------------------------------
(* The classifier: file_visibility of one path *)

InitVisibility ==
    /\ pc = "path"
    /\ \E comps \in ComponentSeqs :
          path \in {join_path(comps), <<SEP>> \o join_path(comps)}
    /\ visibility = ""
    /\ files = <<>>
    /\ dataframe = <<>>
    /\ dataframe_master = <<>>
    /\ dataframe_client = <<>>
    /\ min_size = 0
    /\ only_visible = TRUE
    /\ content = <<>>
    /\ hashed = <<>>
    /\ result = <<>>

FileVisibility ==
    /\ pc = "path"
    /\ visibility' = file_visibility(path)
    /\ pc' = "classified"
    /\ UNCHANGED <<path, files, dataframe, dataframe_master, dataframe_client,
                   min_size, only_visible, content, hashed, result>>

NextVisibility == FileVisibility

SpecVisibility == InitVisibility /\ [][NextVisibility]_vars

-----------------------------------------------------------------------------
(* Both operations, for the statements that speak of both *)

InitBoth == Init \/ InitReconcile

NextBoth == Next \/ NextReconcile

SpecBoth == InitBoth /\ [][NextBoth]_vars

-----------------------------------------------------------------------------
(* Vocabulary of the statements *)

\* the row of a path in a catalog (main_pandas leaves one row per path)
row_of(df, p) == df[CHOOSE i \in 1..Len(df) : df[i].filepath = p]

size_of(df, p) == row_of(df, p).size

type_of(df, p) == row_of(df, p).type

\* paths of one (size, digest) class
same_content(df, p, q) == size_of(df, p) = size_of(df, q) /\ content[p] = content[q]

\* visible, size-present, readable paths of the grouper's catalog
Eligible ==
    {p \in filepaths(dataframe) :
        /\ type_of(dataframe, p) = "visible"
        /\ size_of(dataframe, p) # NaN
        /\ content[p] # None}

GroupSets == {result[i].filepath : i \in 1..Len(result)}

Classes == {{q \in Eligible : same_content(dataframe, p, q)} : p \in Eligible}

-----------------------------------------------------------------------------
(* Statements about find_issues_pandas (Spec) *)

\* C1: the groups find_issues_pandas returns are exactly the (size, digest)
\* classes of two or more eligible (visible, size-present, readable) paths:
\* two paths of one group have equal size and equal digest, two distinct
\* eligible paths of equal size and digest lie in one common group, every
\* group is such a class, and no class is returned twice.
C1_GroupsAreTheClasses ==
    pc = "found" =>
        /\ \A i \in 1..Len(result) : \A p, q \in result[i].filepath :
              /\ size_of(dataframe, p) = result[i].size
              /\ same_content(dataframe, p, q)
        /\ \A p, q \in Eligible :
              (p # q /\ same_content(dataframe, p, q)) =>
                  \E i \in 1..Len(result) : {p, q} \subseteq result[i].filepath
        /\ GroupSets = {C \in Classes : Cardinality(C) >= 2}
        /\ Len(result) = Cardinality(GroupSets)

\* a group was returned while another eligible path of the same size, with
\* another digest, stayed out of it
C1_Witness ==
    /\ pc = "found"
    /\ Len(result) >= 1
    /\ \E p \in Eligible :
          /\ p \notin result[1].filepath
          /\ size_of(dataframe, p) = result[1].size

\* the filtered records of find_issues_pandas: visible, with a size
Filtered ==
    {p \in filepaths(dataframe) :
        type_of(dataframe, p) = "visible" /\ size_of(dataframe, p) # NaN}

SizeBucket(p) == {q \in Filtered : size_of(dataframe, q) = size_of(dataframe, p)}

\* C5: find_issues_pandas calls hash_MD5 exactly once for each filtered
\* record whose size bucket holds two or more records and never for a record
\* whose size is unique: the number of calls is the number of such records.
C5_HashCallsAreTheAmbiguousSizes ==
    pc = "found" =>
        /\ Range(hashed) = {p \in Filtered : Cardinality(SizeBucket(p)) >= 2}
        /\ Len(hashed) = Cardinality(Range(hashed))

\* some records were hashed and a filtered record of unique size was not
C5_Witness ==
    /\ pc = "found"
    /\ hashed # <<>>
    /\ \E p \in Filtered : Cardinality(SizeBucket(p)) = 1

\* C9: the groups are returned by non-increasing size.
C9_GroupsBySizeDescending ==
    pc = "found" =>
        \A i, j \in 1..Len(result) : i < j => result[i].size >= result[j].size

\* two groups of different sizes were returned
C9_Witness ==
    /\ pc = "found"
    /\ Len(result) >= 2
    /\ result[1].size > result[Len(result)].size

\* what the grouper is to return under flags (ms, ov): the eligible paths
EligibleUnder(ms, ov) ==
    {p \in filepaths(dataframe) :
        /\ ov => type_of(dataframe, p) = "visible"
        /\ size_ge(size_of(dataframe, p), ms)
        /\ content[p] # None}

-----------------------------------------------------------------------------
(* Statements about find_issues_master_client (SpecReconcile) *)

Shared == filepaths(dataframe_master) \cap filepaths(dataframe_client)

\* C2: whenever the master and client catalogs share a path, whatever the
\* sizes, visibility, min_size and only_visible, find_issues_master_client
\* raises, returns no match set, and hash_MD5 has not been called.
C2_SharedPathRaisesBeforeHashing ==
    (pc \in {"raised", "matched"} /\ Shared # {}) =>
        /\ pc = "raised"
        /\ result = <<>>
        /\ hashed = <<>>

\* the call raised on catalogs whose only shared path is hidden, has different
\* sizes on the two sides and is below min_size on one of them
C2_Witness ==
    /\ pc = "raised"
    /\ \A p \in Shared :
          /\ type_of(dataframe_master, p) # "visible"
          /\ size_of(dataframe_master, p) # size_of(dataframe_client, p)
          /\ ~size_ge(size_of(dataframe_client, p), min_size)
    /\ only_visible

\* the records of one side that take part: size >= min_size (so present),
\* visible when only_visible is set, readable
EligibleOf(df) ==
    {p \in filepaths(df) :
        /\ size_ge(size_of(df, p), min_size)
        /\ only_visible => type_of(df, p) = "visible"
        /\ content[p] # None}

\* the pairs <<client path, master path>> of equal size and digest
ExpectedMatches ==
    {pr \in EligibleOf(dataframe_client) \X EligibleOf(dataframe_master) :
        /\ size_of(dataframe_client, pr[1]) = size_of(dataframe_master, pr[2])
        /\ content[pr[1]] = content[pr[2]]}

MatchRows(c, m) ==
    {i \in 1..Len(result) : result[i].filepath = c /\ result[i].filepath_master = m}

\* C3: for disjoint catalogs find_issues_master_client returns exactly one
\* match (client path, master path, size) for every pair of an eligible
\* readable client record and an eligible readable master record of equal
\* size and digest, and no other match (so k matches for a client file equal
\* to k master files, and none where no content is shared).
C3_MatchesAreTheEqualPairs ==
    pc = "matched" =>
        /\ \A pr \in ExpectedMatches : Cardinality(MatchRows(pr[1], pr[2])) = 1
        /\ \A i \in 1..Len(result) :
              /\ <<result[i].filepath, result[i].filepath_master>> \in ExpectedMatches
              /\ result[i].size = size_of(dataframe_client, result[i].filepath)
        /\ Len(result) = Cardinality(ExpectedMatches)

\* one client file matched two master files
C3_Witness ==
    /\ pc = "matched"
    /\ \E c \in filepaths(dataframe_client) :
          Cardinality({i \in 1..Len(result) : result[i].filepath = c}) = 2

-----------------------------------------------------------------------------
(* Statements about both operations (SpecBoth) *)

\* C4: a record whose read fails (hash_MD5 returns None) is a member of no
\* group and the client or master path of no match, and the operation still
\* returns: a call raises only on an empty tree or on catalogs that share a
\* path, never because of an unreadable file.
C4_UnreadableNeverReported ==
    /\ pc = "found" =>
          \A i \in 1..Len(result) : \A p \in result[i].filepath : content[p] # None
    /\ pc = "matched" =>
          \A i \in 1..Len(result) :
              /\ content[result[i].filepath] # None
              /\ content[result[i].filepath_master] # None
    /\ pc = "raised" => (files = <<>> \/ Shared # {})

\* hash_MD5 failed on a master file of the size of a client file, and the call
\* still returned the match of the files it could read
C4_Witness ==
    /\ pc = "matched"
    /\ result # <<>>
    /\ \E c \in filepaths(dataframe_client), m \in filepaths(dataframe_master) :
          /\ c \in Range(hashed) /\ m \in Range(hashed)
          /\ content[c] # None /\ content[m] = None
          /\ size_of(dataframe_client, c) = size_of(dataframe_master, m)

\* find_issues_pandas with every visible record hashed (no nunique_size filter)
find_issues_no_prefilter(df, fs) ==
    drop_hashMD5(sort_values(more_than_one(
        groupby_size_hash(with_hashMD5(visible_rows(df), fs)))))

\* find_issues_master_client with every filtered record of both sides hashed
\* (no common_sizes filter)
master_client_no_prefilter(master, client, ms, ov, fs) ==
    merge_inner(
        drop_null_hashes(with_hashMD5(filter_rows(client, ms, ov), fs)),
        drop_null_hashes(with_hashMD5(filter_rows(master, ms, ov), fs)))

\* C6: the size prefilters change no result: the groups of find_issues_pandas
\* are those obtained with every filtered record hashed, and for disjoint
\* catalogs the matches of find_issues_master_client are those obtained with
\* every filtered record of both sides hashed.
C6_PrefiltersChangeNothing ==
    /\ pc = "found" => result = find_issues_no_prefilter(dataframe, content)
    /\ pc = "matched" =>
          result = master_client_no_prefilter(
                       dataframe_master, dataframe_client, min_size, only_visible, content)

\* the common-sizes prefilter kept a master record from being hashed and the
\* call returned a match
C6_Witness ==
    /\ pc = "matched"
    /\ result # <<>>
    /\ \E m \in filepaths(filter_rows(dataframe_master, min_size, only_visible)) :
          m \notin Range(hashed)

-----------------------------------------------------------------------------
(* Statements about the catalog (SpecCatalog) *)

Occurrences(p) == {i \in 1..Len(files) : files[i][1] = p}

FirstSeen(p) == files[CHOOSE i \in Occurrences(p) : \A j \in Occurrences(p) : i <= j][2]

LastSeen(p) == files[CHOOSE i \in Occurrences(p) : \A j \in Occurrences(p) : i >= j][2]

RowsOf(p) == {i \in 1..Len(dataframe) : dataframe[i].filepath = p}

-----------------------------------------------------------------------------
(* Statements about file_visibility (SpecVisibility) *)

Parts == split_path(path)

IsVCSMarker(part) == startswith(part, DOT_GIT)

IsDotted(part) == startswith(part, DOT)

\* a component the classifier calls hidden: dotted, neither VCS nor .DS_Store
IsHiddenDir(part) == part_rule(part) = "hidden"

\* a VCS-marker component somewhere below a hidden directory
VCSInsideHidden ==
    \E i, j \in 1..Len(Parts) :
        i < j /\ IsHiddenDir(Parts[i]) /\ IsVCSMarker(Parts[j])

\* C10 as stated: every path with a VCS-marker component nested inside a
\* hidden directory is classified git, never hidden, and a path with no
\* component beginning with '.' is classified visible.
C10_VCSInsideHiddenIsVCS ==
    pc = "classified" =>
        /\ VCSInsideHidden => visibility = "git"
        /\ (\A i \in 1..Len(Parts) : ~IsDotted(Parts[i])) => visibility = "visible"

\* C10 amended: the scan goes from the leaf to the root and the first
\* component that matches a rule decides: a path whose innermost component
\* beginning with '.' begins with '.git' is classified git, also inside a
\* hidden directory, and never hidden; a path with no component beginning
\* with '.' is classified visible.
C10_InnermostDottedDecides ==
    pc = "classified" =>
        /\ \A j \in 1..Len(Parts) :
              (/\ IsVCSMarker(Parts[j])
               /\ \A k \in (j+1)..Len(Parts) : ~IsDotted(Parts[k]))
                  => visibility = "git"
        /\ (\A i \in 1..Len(Parts) : ~IsDotted(Parts[i])) => visibility = "visible"

\* a path with a VCS marker inside a hidden directory and plain names below
\* it was classified git
C10_Witness ==
    /\ pc = "classified"
    /\ visibility = "git"
    /\ \E i, j \in 1..Len(Parts) :
          /\ i < j /\ j < Len(Parts)
          /\ IsHiddenDir(Parts[i]) /\ IsVCSMarker(Parts[j])
          /\ \A k \in (j+1)..Len(Parts) : ~IsDotted(Parts[k])

=============================================================================
